---- MODULE Spec2Model ----
(***************************************************************************)
(* Model of stacks/django/health-scripts/health_watcher.py: main() and     *)
(* check_health().  One process; pc is its position in main().             *)
(***************************************************************************)
EXTENDS Integers, Sequences, FiniteSets, TLC

\* ---------------------------------------------------------------- bounds
\* longest value of HEALTH_CHECK_INTERVAL that is enumerated
MaxEnvLen == 2

\* characters an enumerated value of HEALTH_CHECK_INTERVAL is made of
EnvChars == {"-", "0", "5", "x"}

\* status codes a completed GET may carry, and descriptions of the
\* exceptions requests.get may raise
Statuses == {200, 204, 503}
Faults == {"timed out", "connection refused"}

\* ------------------------------------------------------ program constants
HTTP_OK == 200
DefaultInterval == <<"6", "0">>
APPS ==
  << [name |-> "Jopi",     url |-> "http://jopi_app:8000/health/"],
     [name |-> "Synergas", url |-> "http://synergas_app:8000/health/"] >>

VARIABLES
  env,             \* HEALTH_CHECK_INTERVAL in the process environment
  pc,              \* position in main()
  apps,            \* local apps of main()
  check_interval,  \* local check_interval (0 stands for unbound before line 45)
  healthy_count,   \* local healthy_count (0 stands for unbound before line 48)
  idx,             \* position of the for loop in apps
  log,             \* lines the logger emitted since the last loop top
  outcomes,        \* what requests.get did for each target of this iteration
  results,         \* what check_health returned for each target of this iteration
  probed,          \* names handed to check_health in this iteration
  slept,           \* the arguments time.sleep has been called with
  remembered       \* outcomes and aggregate line of one earlier iteration

vars == <<env, pc, apps, check_interval, healthy_count, idx, log,
          outcomes, results, probed, slept, remembered>>

\* ------------------------------------------------------------ environment
Strings(n) == UNION {[1..k -> EnvChars] : k \in 0..n}

EnvValues ==
  {[set |-> FALSE, val |-> <<>>]} \cup
  {[set |-> TRUE, val |-> s] : s \in Strings(MaxEnvLen)}

\* os.getenv(name, default)
Getenv(e, default) == IF e.set THEN e.val ELSE default

Digits == {"0", "1", "2", "3", "4", "5", "6", "7", "8", "9"}

DigitVal(c) ==
  CASE c = "0" -> 0 [] c = "1" -> 1 [] c = "2" -> 2 [] c = "3" -> 3
    [] c = "4" -> 4 [] c = "5" -> 5 [] c = "6" -> 6 [] c = "7" -> 7
    [] c = "8" -> 8 [] c = "9" -> 9

RECURSIVE DigitsVal(_)
DigitsVal(s) ==
  IF s = <<>> THEN 0
  ELSE 10 * DigitsVal(SubSeq(s, 1, Len(s) - 1)) + DigitVal(s[Len(s)])

AllDigits(s) == Len(s) > 0 /\ \A i \in 1..Len(s) : s[i] \in Digits

\* int(s) on a string of sign and digit characters: ok = FALSE is ValueError
ParseInt(s) ==
  IF AllDigits(s) THEN [ok |-> TRUE, val |-> DigitsVal(s)]
  ELSE IF Len(s) > 1 /\ s[1] = "-" /\ AllDigits(Tail(s))
    THEN [ok |-> TRUE, val |-> 0 - DigitsVal(Tail(s))]
  ELSE IF Len(s) > 1 /\ s[1] = "+" /\ AllDigits(Tail(s))
    THEN [ok |-> TRUE, val |-> DigitsVal(Tail(s))]
  ELSE [ok |-> FALSE, val |-> 0]

\* time.sleep(secs) raises ValueError for a negative argument
SleepRaises(secs) == secs < 0

\* ------------------------------------------------------------ check_health
\* what requests.get(url, timeout=10) does: a response with a status code,
\* or an exception whose str() is err
Outcomes ==
  {[kind |-> "status", code |-> c, err |-> ""] : c \in Statuses} \cup
  {[kind |-> "fault", code |-> 0, err |-> e] : e \in Faults}

Line(level, msg) == [level |-> level, msg |-> msg]

check_health_propagating(app_name, o) ==
  IF o.kind = "status"
  THEN IF o.code = HTTP_OK
       THEN [raised |-> FALSE, ret |-> TRUE,
             line |-> Line("INFO", app_name \o ": HEALTHY")]
       ELSE [raised |-> FALSE, ret |-> FALSE,
             line |-> Line("WARNING", app_name \o ": UNHEALTHY (HTTP "
                                        \o ToString(o.code) \o ")")]
  ELSE [raised |-> TRUE, ret |-> FALSE,
        line |-> Line("ERROR", app_name \o ": ERROR - " \o o.err)]

check_health_lenient(app_name, o) ==
  IF o.kind = "status"
  THEN IF o.code < 400
       THEN [raised |-> FALSE, ret |-> TRUE,
             line |-> Line("INFO", app_name \o ": HEALTHY")]
       ELSE [raised |-> FALSE, ret |-> FALSE,
             line |-> Line("WARNING", app_name \o ": UNHEALTHY (HTTP "
                                        \o ToString(o.code) \o ")")]
  ELSE [raised |-> FALSE, ret |-> FALSE,
        line |-> Line("ERROR", app_name \o ": ERROR - " \o o.err)]

\* check_health(app_name, url) when requests.get does o: the value returned,
\* the line logged, and whether an exception leaves the function
check_health(app_name, o) ==
  IF o.kind = "status"
  THEN IF o.code = HTTP_OK
       THEN [raised |-> FALSE, ret |-> TRUE,
             line |-> Line("INFO", app_name \o ": HEALTHY")]
       ELSE [raised |-> FALSE, ret |-> FALSE,
             line |-> Line("WARNING", app_name \o ": UNHEALTHY (HTTP "
                                        \o ToString(o.code) \o ")")]
  ELSE [raised |-> FALSE, ret |-> FALSE,
        line |-> Line("ERROR", app_name \o ": ERROR - " \o o.err)]

\* -------------------------------------------------------------------- main
TargetAtReversed(a, i) == a[Len(a) + 1 - i]

\* the element the for loop hands out at position i
TargetAt(a, i) == a[i]

NextTallyAlways(hc, ret) == hc + 1

\* if check_health(...): healthy_count += 1
NextTally(hc, ret) == IF ret THEN hc + 1 ELSE hc

AllHealthyLine == Line("INFO", "All Django apps are healthy")

SomeUnhealthyLine(h, n) ==
  Line("WARNING", "Some Django apps are unhealthy! (" \o ToString(h)
                    \o "/" \o ToString(n) \o " healthy)")

AggregateLineAny(hc, n) ==
  IF hc >= 1 THEN AllHealthyLine ELSE SomeUnhealthyLine(hc, n)

\* the line of lines 54-57
AggregateLine(hc, n) ==
  IF hc = n THEN AllHealthyLine ELSE SomeUnhealthyLine(hc, n)

NoLine == Line("", "")

Init ==
  /\ env \in EnvValues
  /\ pc = "start"
  /\ apps = <<>>
  /\ check_interval = 0
  /\ healthy_count = 0
  /\ idx = 0
  /\ log = <<>>
  /\ outcomes = <<>>
  /\ results = <<>>
  /\ probed = <<>>
  /\ slept = {}
  /\ remembered = [set |-> FALSE, outcomes |-> <<>>, line |-> NoLine]

\* lines 36-42: the startup message, then the target list
Startup ==
  /\ pc = "start"
  /\ log' = Append(log, Line("INFO", "Starting Django health watcher..."))
  /\ apps' = APPS
  /\ pc' = "config"
  /\ UNCHANGED <<env, check_interval, healthy_count, idx, outcomes, results,
                 probed, slept, remembered>>

\* line 45: check_interval = int(os.getenv('HEALTH_CHECK_INTERVAL', '60'))
ReadInterval ==
  /\ pc = "config"
  /\ LET r == ParseInt(Getenv(env, DefaultInterval)) IN
       IF r.ok
       THEN /\ check_interval' = r.val
            /\ pc' = "loop_top"
       ELSE /\ pc' = "crashed"
            /\ UNCHANGED check_interval
  /\ UNCHANGED <<env, apps, healthy_count, idx, log, outcomes, results,
                 probed, slept, remembered>>

LoopTopNoReset ==
  /\ pc = "loop_top"
  /\ idx' = 1
  /\ log' = <<>>
  /\ outcomes' = <<>>
  /\ results' = <<>>
  /\ probed' = <<>>
  /\ pc' = "for"
  /\ UNCHANGED <<env, apps, check_interval, healthy_count, slept, remembered>>

\* lines 47-48: a new iteration begins with healthy_count = 0
LoopTop ==
  /\ pc = "loop_top"
  /\ healthy_count' = 0
  /\ idx' = 1
  /\ log' = <<>>
  /\ outcomes' = <<>>
  /\ results' = <<>>
  /\ probed' = <<>>
  /\ pc' = "for"
  /\ UNCHANGED <<env, apps, check_interval, slept, remembered>>

\* lines 50-52 with the call of check_health (lines 20-32) for one target
ForStep ==
  /\ pc = "for"
  /\ idx <= Len(apps)
  /\ \E o \in Outcomes :
       LET app == TargetAt(apps, idx)
           r == check_health(app.name, o)
       IN /\ probed' = Append(probed, app.name)
          /\ outcomes' = Append(outcomes, o)
          /\ IF r.raised
             THEN /\ pc' = "crashed"
                  /\ UNCHANGED <<log, results, healthy_count, idx>>
             ELSE /\ log' = Append(log, r.line)
                  /\ results' = Append(results, r.ret)
                  /\ healthy_count' = NextTally(healthy_count, r.ret)
                  /\ idx' = idx + 1
                  /\ pc' = IF idx + 1 > Len(apps) THEN "aggregate" ELSE "for"
  /\ UNCHANGED <<env, apps, check_interval, slept, remembered>>

\* lines 54-57: the aggregate line
Aggregate ==
  /\ pc = "aggregate"
  /\ log' = Append(log, AggregateLine(healthy_count, Len(apps)))
  /\ pc' = "sleep"
  /\ UNCHANGED <<env, apps, check_interval, healthy_count, idx, outcomes,
                 results, probed, slept, remembered>>

SleepBackoff ==
  /\ pc = "sleep"
  /\ slept' = slept \cup {check_interval}
  /\ check_interval' = IF healthy_count = Len(apps) THEN check_interval
                       ELSE check_interval + 1
  /\ pc' = IF SleepRaises(check_interval) THEN "crashed" ELSE "loop_top"
  /\ \E keep \in BOOLEAN :
       remembered' = IF keep THEN remembered
                     ELSE [set |-> TRUE, outcomes |-> outcomes,
                           line |-> log[Len(log)]]
  /\ UNCHANGED <<env, apps, healthy_count, idx, log, outcomes, results,
                 probed>>

\* line 59: time.sleep(check_interval), then back to the loop top; the
\* iteration that ends here may be the one that is remembered
Sleep ==
  /\ pc = "sleep"
  /\ slept' = slept \cup {check_interval}
  /\ pc' = IF SleepRaises(check_interval) THEN "crashed" ELSE "loop_top"
  /\ \E keep \in BOOLEAN :
       remembered' = IF keep THEN remembered
                     ELSE [set |-> TRUE, outcomes |-> outcomes,
                           line |-> log[Len(log)]]
  /\ UNCHANGED <<env, apps, check_interval, healthy_count, idx, log,
                 outcomes, results, probed>>

Next ==
  \/ Startup
  \/ ReadInterval
  \/ LoopTop
  \/ ForStep
  \/ Aggregate
  \/ Sleep

Spec == Init /\ [][Next]_vars

\* a probe completes or times out, a sleep ends, a log call returns
FairSpec == Spec /\ WF_vars(Next)

\* the two states of the loop
Probing == pc \in {"loop_top", "for", "aggregate"}
Sleeping == pc = "sleep"

\* ------------------------------------------------------------- properties
N == Len(APPS)
Names == <<"Jopi", "Synergas">>

IsHealthy(o) == o.kind = "status" /\ o.code = 200

\* the number of targets of this iteration whose GET returned 200
H == Cardinality({i \in DOMAIN outcomes : IsHealthy(outcomes[i])})

ExpectedAll == [level |-> "INFO", msg |-> "All Django apps are healthy"]
ExpectedSome(h, n) ==
  [level |-> "WARNING",
   msg |-> "Some Django apps are unhealthy! (" \o ToString(h) \o "/"
             \o ToString(n) \o " healthy)"]
AggregateLines == {ExpectedAll} \cup {ExpectedSome(h, N) : h \in 0..N}

\* C1: when an iteration has logged its aggregate line, that line is "All
\* Django apps are healthy" iff every target returned 200, and otherwise
\* "Some Django apps are unhealthy! (H/N healthy)" with H the number of
\* targets that returned 200; it is the only aggregate line of the iteration
\* (Jopi=200, Synergas=503 gives "(1/2 healthy)").
C1_AggregateCorrect ==
  /\ pc = "sleep" =>
       /\ Len(log) = N + 1
       /\ log[N + 1] = IF H = N THEN ExpectedAll ELSE ExpectedSome(H, N)
       /\ \A i \in 1..N : log[i] \notin AggregateLines
       /\ (outcomes[1].code = 200 /\ outcomes[2].code = 503) =>
            log[N + 1].msg = "Some Django apps are unhealthy! (1/2 healthy)"
  /\ pc \in {"for", "aggregate"} =>
       \A i \in DOMAIN log : log[i] \notin AggregateLines

C1_Witness ==
  /\ pc = "sleep"
  /\ outcomes[1].code = 200
  /\ outcomes[2].code = 503
  /\ log[3] = [level |-> "WARNING",
               msg |-> "Some Django apps are unhealthy! (1/2 healthy)"]

FaultStep ==
  /\ pc = "for"
  /\ Len(outcomes') = Len(outcomes) + 1
  /\ outcomes'[Len(outcomes')].kind = "fault"

\* C2: a probe whose GET raises logs one error line with the target name and
\* the error description, returns not-healthy, leaves the tally alone, does
\* not end the process, and the for loop moves on to the next target.
C2_FaultAbsorbed ==
  [][FaultStep =>
       /\ pc' \in {"for", "aggregate"}
       /\ idx' = idx + 1
       /\ (idx < N => pc' = "for")
       /\ healthy_count' = healthy_count
       /\ results' = Append(results, FALSE)
       /\ log' = Append(log,
            [level |-> "ERROR",
             msg |-> Names[idx] \o ": ERROR - "
                       \o outcomes'[Len(outcomes')].err])]_vars

C2_Witness ==
  /\ pc = "for"
  /\ idx = 2
  /\ outcomes[1].kind = "fault"
  /\ log = <<[level |-> "ERROR", msg |-> "Jopi: ERROR - timed out"]>>
  /\ healthy_count = 0

\* C3 (as amended): check_health classifies a completed request by its
\* status code alone: 200 returns True and logs info "{name}: HEALTHY", any
\* other status S returns False and logs warning "{name}: UNHEALTHY (HTTP
\* S)"; a transport fault returns the same False.
C3_Classification ==
  /\ Len(log) >= Len(results)
  /\ \A i \in DOMAIN results :
       LET o == outcomes[i] IN
         /\ results[i] \in BOOLEAN
         /\ (o.kind = "status" /\ o.code = 200) =>
              /\ results[i] = TRUE
              /\ log[i] = [level |-> "INFO", msg |-> Names[i] \o ": HEALTHY"]
         /\ (o.kind = "status" /\ o.code # 200) =>
              /\ results[i] = FALSE
              /\ log[i] = [level |-> "WARNING",
                           msg |-> Names[i] \o ": UNHEALTHY (HTTP "
                                     \o ToString(o.code) \o ")"]
         /\ o.kind = "fault" => results[i] = FALSE

C3_Witness ==
  /\ Len(results) = 2
  /\ log[1] = [level |-> "WARNING", msg |-> "Jopi: UNHEALTHY (HTTP 503)"]
  /\ log[2] = [level |-> "INFO", msg |-> "Synergas: HEALTHY"]
  /\ results = <<FALSE, TRUE>>

\* C3 (as stated): the result returned for a non-200 status is distinct from
\* the result returned for a transport fault.
C3_ResultsDistinct ==
  \A i, j \in DOMAIN results :
    (outcomes[i].kind = "status" /\ outcomes[i].code # 200
       /\ outcomes[j].kind = "fault") => results[i] # results[j]

\* C4: Probing is always followed by Probing or Sleeping and Sleeping by
\* Probing; the loop has no way out, whatever the configuration.
C4_Alternates ==
  [][/\ Probing => (Probing' \/ Sleeping')
     /\ Sleeping => Probing']_vars

\* C5: if the process fails with an unhandled error, no target has been
\* probed and no aggregate line has been logged before the failure.
C5_FailureOnlyAtStartup ==
  pc = "crashed" =>
    /\ probed = <<>>
    /\ \A i \in DOMAIN log : log[i] \notin AggregateLines

InLoop == pc \in {"loop_top", "for", "aggregate", "sleep"}

\* C6: the interval is read once (60 when HEALTH_CHECK_INTERVAL is unset, 5
\* when it is "5"); afterwards neither it nor the target list changes, and
\* every call of time.sleep gets that same value.
C6_IntervalImmutable ==
  [][/\ pc \notin {"start", "config"} =>
          (check_interval' = check_interval /\ apps' = apps)
     /\ env' = env
     /\ slept' \subseteq {check_interval'}
     /\ (InLoop' /\ ~env.set) => check_interval' = 60
     /\ (InLoop' /\ env = [set |-> TRUE, val |-> <<"5">>]) =>
          check_interval' = 5]_vars

C6_Witness ==
  /\ pc = "sleep"
  /\ ~env.set
  /\ slept = {60}
  /\ remembered.set
  /\ H < N

IsPrefix(s, t) == Len(s) <= Len(t) /\ s = SubSeq(t, 1, Len(s))

\* C7: within an iteration the targets are probed one at a time in
\* declaration order, each once; a probe starts only after the previous
\* probe's line is logged; the aggregate line comes after all probes and
\* before the sleep; nothing is probed or logged while sleeping.
C7_Ordering ==
  [][/\ IsPrefix(probed', Names)
     /\ pc' = "for" => (idx' = Len(probed') + 1 /\ Len(log') = Len(probed'))
     /\ pc' = "aggregate" => (Len(probed') = N /\ Len(log') = N)
     /\ pc' = "sleep" => (Len(probed') = N /\ Len(log') = N + 1
                            /\ log'[N + 1] \in AggregateLines)
     /\ pc = "sleep" => UNCHANGED <<probed, outcomes, log>>
     /\ (probed' # probed) =>
          (probed' = <<>> \/ probed' = Append(probed, Names[idx]))]_vars

C7_Witness ==
  /\ pc = "sleep"
  /\ probed = <<"Jopi", "Synergas">>
  /\ Len(log) = 3
  /\ remembered.set

\* C8: the tally starts every iteration at 0, and two iterations in which
\* every target yields the same outcome log the same aggregate line,
\* whatever happened in between.
C8_Idempotent ==
  /\ (pc = "for" /\ idx = 1) => healthy_count = 0
  /\ (pc = "sleep" /\ remembered.set /\ remembered.outcomes = outcomes) =>
       log[Len(log)] = remembered.line

C8_Witness ==
  /\ pc = "sleep"
  /\ remembered.set
  /\ remembered.outcomes = outcomes
  /\ outcomes[1].code = 200
  /\ outcomes[2].kind = "fault"
  /\ log[3] = remembered.line

ProbedAgain(i) == pc \in {"for", "aggregate"} /\ Len(probed) >= i

\* C9: once an iteration has reached its sleep, every target is probed
\* again in a later iteration.
C9_ProbedAgain ==
  /\ Sleeping ~> ProbedAgain(1)
  /\ Sleeping ~> ProbedAgain(2)

\* C10: the tally is the number of targets probed so far in this iteration
\* that returned 200, so 0 <= tally <= probed so far <= N; within an
\* iteration it never decreases, grows by at most 1 per probe, and only by a
\* probe that returned 200.
C10_TallyInvariant ==
  /\ [](/\ healthy_count = H
        /\ 0 <= healthy_count
        /\ healthy_count <= Len(outcomes)
        /\ Len(outcomes) <= N)
  /\ [][pc = "for" =>
          /\ healthy_count' >= healthy_count
          /\ healthy_count' <= healthy_count + 1
          /\ healthy_count' = healthy_count + 1 =>
               IsHealthy(outcomes'[Len(outcomes')])]_vars

C10_Witness ==
  /\ pc = "aggregate"
  /\ outcomes[1].code = 503
  /\ outcomes[2].code = 200
  /\ healthy_count = 1

====
